---- MODULE Spec2Model ----
(***************************************************************************)
(* Ephemeral file store of the MCP skills server (src/src/server.py):      *)
(* the ledger FILE_METADATA, its side file .metadata.json, the blob files  *)
(* of FILES_DIR, store_file, get_file_metadata, get_file_path,             *)
(* cleanup_expired_files, load_metadata / save_metadata and the download   *)
(* endpoint.                                                               *)
(*                                                                         *)
(* Conventions.  A file id (the text of a uuid4) is a number of Ids.  A    *)
(* file name is a tuple of one-character strings.  Bytes are tuples of     *)
(* byte values.  A datetime is a number of hours; the text isoformat()     *)
(* makes of it is the record [fmt |-> "T", t |-> hours], the text str()    *)
(* makes of it is [fmt |-> " ", t |-> hours] and the datetime object       *)
(* itself is [fmt |-> "datetime", t |-> hours].  Every handler runs to     *)
(* completion on the event loop (it has no await after its request is      *)
(* read), so each is one action.                                           *)
(***************************************************************************)
EXTENDS Integers, Sequences, FiniteSets, TLC

\* ------------------------------------------------------------------ bounds
MaxIds    == 2      \* size of the id space uuid4 draws from
MaxClock  == 48     \* last hour the clock reaches

\* ------------------------------------------------------- program constants
TTL_HOURS == 24     \* timedelta(hours=24)

\* the clock is observed in steps of one TTL
TickStep  == TTL_HOURS

Ids       == 1..MaxIds
Contents  == {<<>>, <<37, 80>>}
Filenames == {<<"d", ".", "p">>, <<"x", "/", ".", "p">>}
MimeTypes == {"application/pdf"}
PUBLIC_BASE_URL == "http://localhost:8001/files"

VARIABLES
    FILE_METADATA,   \* the ledger: file id -> descriptor
    ledgerType,      \* Python type of the object FILE_METADATA is bound to
    files,           \* blob files of FILES_DIR: stored file name -> bytes
    METADATA_FILE,   \* FILES_DIR/.metadata.json: [exists, text]
    clock,           \* datetime.now(), in hours
    issued,          \* history: ids uuid4 has returned to store_file
    returned,        \* history: id -> [meta, content] of what store_file returned
    swept,           \* history: ids cleanup_expired_files has removed
    reissued,        \* history: ids store_file has returned more than once
    loadedFrom,      \* history: kind of side file the last load_metadata met
    last,            \* outcome of the last operation
    toolcall,        \* the last call of a tool that decodes: input and result
    inflight,        \* requests accepted and not yet answered in full
    run              \* the handler being followed statement by statement

\* the variables only the tools, the request life cycle and the
\* statement-level handlers change
aux == <<toolcall, inflight, run>>

vars == <<FILE_METADATA, ledgerType, files, METADATA_FILE, clock, issued,
          returned, swept, reissued, loadedFrom, last, toolcall, inflight, run>>

\* ------------------------------------------------------------ dictionaries
EmptyDict == [k \in {} |-> 0]

Put(d, k, v) == [x \in DOMAIN d \cup {k} |-> IF x = k THEN v ELSE d[x]]

Pop(d, K) == [x \in DOMAIN d \ K |-> d[x]]

Max(S) == CHOOSE m \in S : \A x \in S : x <= m

\* ---------------------------------------------------------------- datetime
isoformat(t) == [fmt |-> "T", t |-> t]

str(dt) == [fmt |-> " ", t |-> dt.t]

\* datetime.fromisoformat accepts any one-character separator
fromisoformat(s) == s.t

\* ------------------------------------------------------------- pathlib
LastIndexOf(s, c) ==
    LET I == {i \in 1..Len(s) : s[i] = c}
    IN  IF I = {} THEN 0 ELSE Max(I)

\* Path(filename).name: the last component
PathName(f) == SubSeq(f, LastIndexOf(f, "/") + 1, Len(f))

\* Path(filename).suffix: from the last dot of the name, when that dot is
\* neither its first nor its last character
suffix(f) ==
    LET name == PathName(f)
        j    == LastIndexOf(name, ".")
    IN  IF 1 < j /\ j < Len(name) THEN SubSeq(name, j, Len(name)) ELSE <<>>


\* -------------------------------------------------------------------- json
\* What json.dumps(..., default=str) writes for one value of a descriptor:
\* a str is written as it is, a datetime object goes through default=str.
json_value(v) == IF v.fmt = "datetime" THEN str(v) ELSE v

json_descriptor(m) ==
    [m EXCEPT !.created_at = json_value(@), !.expires_at = json_value(@)]

\* json.dumps(FILE_METADATA, default=str): one JSON object keyed by id
json_dumps(obj) ==
    [kind |-> "object", members |-> [k \in DOMAIN obj |-> json_descriptor(obj[k])]]

NoText      == [kind |-> "none", members |-> EmptyDict]
GarbageText == [kind |-> "garbage", members |-> EmptyDict]   \* not JSON at all
ArrayText   == [kind |-> "array", members |-> EmptyDict]     \* the JSON text []

\* json.loads: raises on text that is not JSON, otherwise returns the Python
\* object the text denotes (a dict for an object, a list for an array)
json_loads(text) ==
    CASE text.kind = "object" -> [raised |-> FALSE, type |-> "dict", value |-> text.members]
      [] text.kind = "array"  -> [raised |-> FALSE, type |-> "list", value |-> EmptyDict]
      [] OTHER                -> [raised |-> TRUE,  type |-> "none", value |-> EmptyDict]

\* save_metadata(): the side file after METADATA_FILE.write_text(json.dumps(obj))
save_metadata_skipped(obj) == METADATA_FILE

\* the side file is written only when there is none yet
save_metadata_first_only(obj) ==
    IF METADATA_FILE.exists THEN METADATA_FILE
    ELSE [exists |-> TRUE, text |-> json_dumps(obj)]

save_metadata(obj) == [exists |-> TRUE, text |-> json_dumps(obj)]

\* load_metadata() on a fresh process (FILE_METADATA = {} before the call):
\* the object FILE_METADATA is bound to afterwards
load_metadata(file) ==
    IF ~file.exists
    THEN [type |-> "dict", value |-> EmptyDict]
    ELSE LET r == json_loads(file.text)
         IN  IF r.raised
             THEN [type |-> "dict", value |-> EmptyDict]
             ELSE [type |-> r.type, value |-> r.value]

\* ------------------------------------------------------------- file storage
uuid4_recycled == Ids \ DOMAIN FILE_METADATA

\* uuid.uuid4(): an id no earlier call has returned
uuid4 == Ids \ issued

\* uuid.uuid4() as a bare random draw from the id space
uuid4_random == Ids

stored_filename_noid(file_id, filename) == <<0, suffix(filename)>>

\* f"{file_id}{ext}"
stored_filename(file_id, filename) == <<file_id, suffix(filename)>>

metadata_datetime(file_id, filename, mime_type, content, now1, now2) ==
    [id                |-> file_id,
     original_filename |-> filename,
     stored_filename   |-> stored_filename(file_id, filename),
     mime_type         |-> mime_type,
     size              |-> Len(content),
     created_at        |-> [fmt |-> "datetime", t |-> now1],
     expires_at        |-> [fmt |-> "datetime", t |-> now2 + TTL_HOURS],
     download_url      |-> <<PUBLIC_BASE_URL, file_id, filename>>]

\* the dict store_file builds; now1 and now2 are its two readings of the clock
make_metadata(file_id, filename, mime_type, content, now1, now2) ==
    [id                |-> file_id,
     original_filename |-> filename,
     stored_filename   |-> stored_filename(file_id, filename),
     mime_type         |-> mime_type,
     size              |-> Len(content),
     created_at        |-> isoformat(now1),
     expires_at        |-> isoformat(now2 + TTL_HOURS),
     download_url      |-> <<PUBLIC_BASE_URL, file_id, filename>>]

\* Python's None, as get_file_metadata and get_file_path return it
NoMetadata ==
    [id |-> 0, original_filename |-> <<>>, stored_filename |-> <<-1, <<>>>>,
     mime_type |-> "", size |-> 0, created_at |-> isoformat(0),
     expires_at |-> isoformat(0), download_url |-> <<"", 0, <<>>>>]

NoPath == <<-1, <<>>>>

get_file_metadata(file_id) ==
    IF file_id \in DOMAIN FILE_METADATA THEN FILE_METADATA[file_id] ELSE NoMetadata

get_file_path(file_id) ==
    LET metadata == get_file_metadata(file_id)
    IN  IF metadata = NoMetadata THEN NoPath
        ELSE IF metadata.stored_filename \in DOMAIN files
             THEN metadata.stored_filename
             ELSE NoPath

expired_by_creation(now) ==
    {fid \in DOMAIN FILE_METADATA : now > fromisoformat(FILE_METADATA[fid].created_at)}

expired_inclusive(now) ==
    {fid \in DOMAIN FILE_METADATA : now >= fromisoformat(FILE_METADATA[fid].expires_at)}

\* the list `expired` of cleanup_expired_files
expired(now) ==
    {fid \in DOMAIN FILE_METADATA : now > fromisoformat(FILE_METADATA[fid].expires_at)}


\* ------------------------------------------------------------ clean_base64
\* Text is a tuple of one-character strings.
B64Alphabet ==
    <<"A", "B", "C", "D", "E", "F", "G", "H", "I", "J", "K", "L", "M", "N",
      "O", "P", "Q", "R", "S", "T", "U", "V", "W", "X", "Y", "Z", "a", "b",
      "c", "d", "e", "f", "g", "h", "i", "j", "k", "l", "m", "n", "o", "p",
      "q", "r", "s", "t", "u", "v", "w", "x", "y", "z", "0", "1", "2", "3",
      "4", "5", "6", "7", "8", "9", "+", "/">>

UpperCase == <<"A", "B", "C", "D", "E", "F", "G", "H", "I", "J", "K", "L", "M",
             "N", "O", "P", "Q", "R", "S", "T", "U", "V", "W", "X", "Y", "Z">>

LowerCase == <<"a", "b", "c", "d", "e", "f", "g", "h", "i", "j", "k", "l", "m",
             "n", "o", "p", "q", "r", "s", "t", "u", "v", "w", "x", "y", "z">>

\* the characters str.split() splits on
Whitespace == {" ", "\t", "\n", "\r"}

IndexIn(t, c) == CHOOSE i \in 1..Len(t) : t[i] = c

InTuple(t, c) == \E i \in 1..Len(t) : t[i] = c

\* str.lower()
lower(s) ==
    [i \in 1..Len(s) |->
        IF InTuple(UpperCase, s[i]) THEN LowerCase[IndexIn(UpperCase, s[i])]
        ELSE s[i]]

\* sub in s
Contains(s, sub) ==
    \E i \in 1..(Len(s) - Len(sub) + 1) : SubSeq(s, i, i + Len(sub) - 1) = sub

\* s.startswith(p)
StartsWith(s, p) == Len(s) >= Len(p) /\ SubSeq(s, 1, Len(p)) = p

IsNotWhitespace(c) == c \notin Whitespace

IsBase64Char(c) == InTuple(B64Alphabet, c) \/ c = "="

\* s.split(',', 1)[1]
AfterFirstComma(s) == SubSeq(s, IndexIn(s, ",") + 1, Len(s))

Pad(n) == [i \in 1..n |-> "="]

\* binascii.a2b_base64 as base64.b64decode calls it (not strict): the scan
\* of the text from character i with quad_pos characters of the current
\* group read, leftchar the bits not yet written, pads the pad characters
\* seen in the group and out the bytes written so far
RECURSIVE a2b_base64(_, _, _, _, _, _)
a2b_base64(s, i, quad_pos, leftchar, pads, out) ==
    IF i > Len(s)
    THEN [raised |-> quad_pos # 0, value |-> IF quad_pos # 0 THEN <<>> ELSE out]
    ELSE IF s[i] = "="
    THEN IF quad_pos >= 2 /\ quad_pos + pads + 1 >= 4
         THEN [raised |-> FALSE, value |-> out]
         ELSE a2b_base64(s, i + 1, quad_pos, leftchar,
                         IF quad_pos >= 2 THEN pads + 1 ELSE pads, out)
    ELSE IF ~InTuple(B64Alphabet, s[i])
    THEN a2b_base64(s, i + 1, quad_pos, leftchar, pads, out)
    ELSE LET v == IndexIn(B64Alphabet, s[i]) - 1
         IN  CASE quad_pos = 0 -> a2b_base64(s, i + 1, 1, v, 0, out)
               [] quad_pos = 1 ->
                      a2b_base64(s, i + 1, 2, v % 16, 0,
                                 Append(out, leftchar * 4 + v \div 16))
               [] quad_pos = 2 ->
                      a2b_base64(s, i + 1, 3, v % 4, 0,
                                 Append(out, leftchar * 16 + v \div 4))
               [] OTHER ->
                      a2b_base64(s, i + 1, 0, 0, 0,
                                 Append(out, leftchar * 64 + v))

b64decode(s) == a2b_base64(s, 1, 0, 0, 0, <<>>)

PdfMagic == <<37, 80, 68, 70>>

PlaceholderMark == <<"b", "a", "s", "e", "6", "4", "-", "e", "n", "c", "o", "d", "e", "d">>

DataScheme == <<"d", "a", "t", "a", ":">>

Raised == [raised |-> TRUE, value |-> <<>>]

clean_base64_any_format(content_b64) ==
    IF content_b64 = <<>> THEN Raised
    ELSE IF StartsWith(content_b64, <<"<">>)
            \/ Contains(lower(content_b64), PlaceholderMark)
    THEN Raised
    ELSE LET unprefixed == IF InTuple(content_b64, ",")
                              /\ StartsWith(content_b64, DataScheme)
                           THEN AfterFirstComma(content_b64)
                           ELSE content_b64
             cleaned    == SelectSeq(SelectSeq(unprefixed, IsNotWhitespace),
                                     IsBase64Char)
             missing    == Len(cleaned) % 4
             padded     == IF missing # 0 THEN cleaned \o Pad(4 - missing)
                           ELSE cleaned
         IN  b64decode(padded)

clean_base64_lenient(content_b64) ==
    IF content_b64 = <<>> \/ StartsWith(content_b64, <<"<">>)
    THEN [raised |-> FALSE, value |-> <<>>]
    ELSE clean_base64_any_format(content_b64)

\* clean_base64(content_b64, filename): the bytes, or the ValueError /
\* binascii.Error it raises
clean_base64(content_b64) ==
    IF content_b64 = <<>> THEN Raised
    ELSE IF StartsWith(content_b64, <<"<">>)
            \/ Contains(lower(content_b64), PlaceholderMark)
    THEN Raised
    ELSE LET unprefixed == IF InTuple(content_b64, ",")
                              /\ StartsWith(content_b64, DataScheme)
                           THEN AfterFirstComma(content_b64)
                           ELSE content_b64
             cleaned    == SelectSeq(SelectSeq(unprefixed, IsNotWhitespace),
                                     IsBase64Char)
             missing    == Len(cleaned) % 4
             padded     == IF missing # 0 THEN cleaned \o Pad(4 - missing)
                           ELSE cleaned
             decoded    == b64decode(padded)
         IN  IF decoded.raised THEN Raised
             ELSE IF ~StartsWith(decoded.value, PdfMagic) THEN Raised
             ELSE decoded

\* ------------------------------------------------- what a client may send
\* base64.b64encode(b), three bytes at a time
RECURSIVE b64encode(_)
b64encode(b) ==
    LET c(n) == B64Alphabet[n + 1]
    IN  CASE Len(b) = 0 -> <<>>
          [] Len(b) = 1 -> <<c(b[1] \div 4), c((b[1] % 4) * 16), "=", "=">>
          [] Len(b) = 2 -> <<c(b[1] \div 4), c((b[1] % 4) * 16 + b[2] \div 16),
                             c((b[2] % 16) * 4), "=">>
          [] OTHER -> <<c(b[1] \div 4), c((b[1] % 4) * 16 + b[2] \div 16),
                        c((b[2] % 16) * 4 + b[3] \div 64), c(b[3] % 64)>>
                      \o b64encode(SubSeq(b, 4, Len(b)))

DataPrefix == <<"d", "a", "t", "a", ":", "a", "p", "p", "l", "i", "c", "a", "t", "i",
    "o", "n", "/", "p", "d", "f", ";", "b", "a", "s", "e", "6", "4", ",">>

IsNotPad(c) == c # "="

\* the text with its trailing padding removed
Unpadded(t) == SelectSeq(t, IsNotPad)

\* the text line-wrapped after every second character, between blanks
RECURSIVE Wrapped(_)
Wrapped(t) ==
    IF Len(t) <= 2 THEN t \o <<" ">>
    ELSE SubSeq(t, 1, 2) \o <<"\n">> \o Wrapped(SubSeq(t, 3, Len(t)))

Forms == {"plain", "prefix", "spaced", "prefix_spaced", "unpadded",
          "space_before_prefix", "prefix_spaced_unpadded"}

\* the encoding of the bytes b in one of the forms a client may send it
Encoded(b, form) ==
    CASE form = "plain"    -> b64encode(b)
      [] form = "prefix"   -> DataPrefix \o b64encode(b)
      [] form = "spaced"   -> <<" ">> \o Wrapped(b64encode(b))
      [] form = "prefix_spaced" ->
             DataPrefix \o <<" ", " ">> \o Wrapped(b64encode(b))
      [] form = "unpadded" -> Unpadded(b64encode(b))
      [] form = "space_before_prefix" -> <<" ">> \o DataPrefix \o b64encode(b)
      [] OTHER -> DataPrefix \o <<"\t">> \o Wrapped(Unpadded(b64encode(b)))

Placeholder == <<"<", "P", "L", "A", "C", "E", "H", "O", "L", "D", "E", "R", ">">>

Phrase == <<"B", "a", "s", "e", "6", "4", "-", "E", "n", "c", "o", "d", "e", "d", " ", "P", "D", "F">>

PdfBytes == {PdfMagic}
OtherBytes == {<<104, 105>>}

\* the payloads of the requests: encodings of byte strings, and texts that
\* are no encoding
Payloads ==
    {Encoded(b, form) : b \in PdfBytes \cup OtherBytes, form \in Forms}
    \cup {<<>>, Placeholder, Phrase}

\* ---------------------------------------------------------------- outcomes
Outcome(op, id, status, body, data, removed, raised) ==
    [op |-> op, id |-> id, status |-> status, body |-> body, data |-> data,
     removed |-> removed, raised |-> raised]

\* no tool has been called yet
NoCall == [tool |-> "none", texts |-> <<>>, success |-> FALSE, decoded |-> <<>>]

\* no handler is in the middle of its statements
Idle == [op |-> "idle", pc |-> "idle", id |-> 0, meta |-> NoMetadata,
         expired |-> {}, todo |-> {}, popped |-> {}, unlinked |-> {},
         saves |-> 0]

Init ==
    /\ FILE_METADATA = EmptyDict
    /\ ledgerType = "dict"
    /\ files = EmptyDict
    /\ METADATA_FILE = [exists |-> FALSE, text |-> NoText]
    /\ clock = 0
    /\ issued = {}
    /\ returned = EmptyDict
    /\ swept = {}
    /\ reissued = {}
    /\ loadedFrom = "missing"
    /\ last = Outcome("init", 0, 0, "none", <<>>, {}, FALSE)
    /\ toolcall = NoCall
    /\ inflight = {}
    /\ run = Idle

\* --------------------------------------------------------------- store_file
\* store_file(content, filename, mime_type) with file_id the value of uuid4()
\* and the clock advancing by d hours between its two datetime.now() calls.
\* On a ledger that is no dict the assignment FILE_METADATA[file_id] = ...
\* raises after write_bytes has run.
store_file(content, filename, mime_type, file_id, d) ==
    LET name     == stored_filename(file_id, filename)
        metadata == make_metadata(file_id, filename, mime_type, content,
                                  clock, clock + d)
    IN  /\ clock + d <= MaxClock
        /\ clock' = clock + d
        /\ issued' = issued \cup {file_id}
        /\ files' = Put(files, name, content)
        /\ IF ledgerType = "dict"
           THEN /\ FILE_METADATA' = Put(FILE_METADATA, file_id, metadata)
                /\ METADATA_FILE' = save_metadata(FILE_METADATA')
                /\ returned' = Put(returned, file_id,
                                   [meta |-> metadata, content |-> content])
                /\ reissued' = reissued \cup ({file_id} \cap DOMAIN returned)
                /\ last' = Outcome("store", file_id, 0, "none", <<>>, {},
                                   FALSE)
           ELSE /\ last' = Outcome("store", file_id, 0, "none", <<>>, {}, TRUE)
                /\ UNCHANGED <<FILE_METADATA, METADATA_FILE, returned, reissued>>
        /\ UNCHANGED <<ledgerType, swept, loadedFrom>>

Store ==
    \E content \in Contents, filename \in Filenames, mime_type \in MimeTypes,
       file_id \in uuid4, d \in {0, TickStep} :
        /\ store_file(content, filename, mime_type, file_id, d)
        /\ UNCHANGED aux

StoreRandomId ==
    \E content \in Contents, filename \in Filenames, mime_type \in MimeTypes,
       file_id \in uuid4_random, d \in {0, TickStep} :
        /\ store_file(content, filename, mime_type, file_id, d)
        /\ UNCHANGED aux

\* ---------------------------------------------------- cleanup_expired_files
unlink_none(E) == files

\* the blob files left once the files of the entries E are unlinked
unlink_all(E) ==
    [n \in DOMAIN files \ {FILE_METADATA[fid].stored_filename : fid \in E}
        |-> files[n]]

\* cleanup_expired_files(), as /health runs it.  On a ledger that is no dict
\* FILE_METADATA.items() raises.
cleanup_expired_files ==
    IF ledgerType = "dict"
    THEN LET E == expired(clock)
         IN  /\ UNCHANGED aux
             /\ FILE_METADATA' = Pop(FILE_METADATA, E)
             /\ files' = unlink_all(E)
             /\ METADATA_FILE' = IF E # {} THEN save_metadata(FILE_METADATA')
                                 ELSE METADATA_FILE
             /\ swept' = swept \cup E
             /\ last' = Outcome("cleanup", 0, 200, "none", <<>>, E, FALSE)
             /\ UNCHANGED <<ledgerType, clock, issued, returned, reissued,
                            loadedFrom>>
    ELSE /\ UNCHANGED aux
         /\ last' = Outcome("cleanup", 0, 500, "none", <<>>, {}, TRUE)
         /\ UNCHANGED <<FILE_METADATA, ledgerType, files, METADATA_FILE, clock,
                        issued, returned, swept, reissued, loadedFrom>>

\* ---------------------------------------------------- endpoint_download_file
download_ttl_gated(file_id, requested_filename) ==
    IF ledgerType # "dict"
    THEN [status |-> 500, body |-> "exception", data |-> <<>>]
    ELSE IF get_file_metadata(file_id) = NoMetadata
            \/ clock > fromisoformat(get_file_metadata(file_id).expires_at)
    THEN [status |-> 404, body |-> "json_error", data |-> <<>>]
    ELSE IF get_file_path(file_id) = NoPath
    THEN [status |-> 404, body |-> "json_error", data |-> <<>>]
    ELSE [status |-> 200, body |-> "file", data |-> files[get_file_path(file_id)]]

download_missing_blob_empty(file_id, requested_filename) ==
    IF ledgerType # "dict"
    THEN [status |-> 500, body |-> "exception", data |-> <<>>]
    ELSE IF get_file_metadata(file_id) = NoMetadata
    THEN [status |-> 404, body |-> "json_error", data |-> <<>>]
    ELSE IF get_file_path(file_id) = NoPath
    THEN [status |-> 200, body |-> "file", data |-> <<>>]
    ELSE [status |-> 200, body |-> "file", data |-> files[get_file_path(file_id)]]

\* the response of GET /files/{file_id}/{filename}; on a ledger that is no
\* dict FILE_METADATA.get raises and the server answers 500
endpoint_download_file(file_id, requested_filename) ==
    IF ledgerType # "dict"
    THEN [status |-> 500, body |-> "exception", data |-> <<>>]
    ELSE IF get_file_metadata(file_id) = NoMetadata
    THEN [status |-> 404, body |-> "json_error", data |-> <<>>]
    ELSE IF get_file_path(file_id) = NoPath
    THEN [status |-> 404, body |-> "json_error", data |-> <<>>]
    ELSE [status |-> 200, body |-> "file", data |-> files[get_file_path(file_id)]]

Download ==
    \E file_id \in Ids, requested_filename \in Filenames :
        LET r == endpoint_download_file(file_id, requested_filename)
        IN  /\ last' = Outcome("download", file_id, r.status, r.body, r.data,
                               {}, r.status = 500)
            /\ UNCHANGED aux
            /\ UNCHANGED <<FILE_METADATA, ledgerType, files, METADATA_FILE,
                           clock, issued, returned, swept, reissued, loadedFrom>>

\* ------------------------------------------------------------------- tools
\* Path(filename).stem
stem(f) == SubSeq(PathName(f), 1, Len(PathName(f)) - Len(suffix(f)))

\* the names the tools give their results (the page list and the time
\* stamp the code puts into them are left out)
MergedName     == <<"m", "e", "r", "g", "e", "d", "_", ".", "p", "d", "f">>
SplitName(f)   == stem(f) \o <<"_", "p", "a", "g", "e", "s", "_", "1", ".", "p", "d", "f">>
ImageName(f)   == stem(f) \o <<"_", "p", "a", "g", "e", "_", "1", ".", "p", "n", "g">>

\* what pypdf / pdf2image hand back for a PDF they accept
LibraryPdf == <<37, 80, 68, 70, 10>>
LibraryPng == <<137, 80, 78, 71>>

\* the tools are followed at one instant: the clock does not advance
\* inside their store_file
ToolAdvance == {0}

\* the payloads given to the tools other than tool_upload_file
FewPayloads == {Encoded(PdfMagic, "prefix_spaced"), Encoded(<<104, 105>>, "plain"),
                <<>>, Placeholder}

\* clean_base64 on each payload of the model, computed once
decode == [content_b64 \in Payloads |-> clean_base64(content_b64)]

\* the tool returns {"success": False, "message": ...}
ToolFails(tool, texts) ==
    /\ toolcall' = [tool |-> tool, texts |-> texts, success |-> FALSE,
                    decoded |-> <<>>]
    /\ last' = Outcome(tool, 0, 200, "failure", <<>>, {}, FALSE)
    /\ UNCHANGED <<FILE_METADATA, ledgerType, files, METADATA_FILE, clock,
                   issued, returned, swept, reissued, loadedFrom>>

\* the tool stores its result; an exception store_file raises is caught and
\* answered with success False as well
ToolStores(tool, texts, decoded, content, filename, mime_type) ==
    \E file_id \in uuid4, d \in ToolAdvance :
        /\ store_file(content, filename, mime_type, file_id, d)
        /\ toolcall' = [tool |-> tool, texts |-> texts,
                        success |-> ledgerType = "dict", decoded |-> decoded]

tool_upload_file(content_base64, filename, mime_type) ==
    LET r == decode[content_base64]
    IN  IF r.raised
        THEN ToolFails("upload_file", <<content_base64>>)
        ELSE ToolStores("upload_file", <<content_base64>>, r.value, r.value,
                        filename, mime_type)

UploadFile ==
    \E content_base64 \in Payloads, filename \in Filenames,
       mime_type \in MimeTypes :
        /\ tool_upload_file(content_base64, filename, mime_type)
        /\ UNCHANGED <<inflight, run>>

\* tool_merge_pdfs on the list of payloads pdfs; library says whether pypdf
\* reads the decoded files
tool_merge_pdfs(pdfs, library) ==
    IF \E i \in 1..Len(pdfs) : decode[pdfs[i]].raised
    THEN ToolFails("merge_pdfs", pdfs)
    ELSE IF pdfs = <<>> \/ library = "raises"
    THEN ToolFails("merge_pdfs", pdfs)
    ELSE ToolStores("merge_pdfs", pdfs, decode[pdfs[1]].value,
                    LibraryPdf, MergedName, "application/pdf")

MergePdfs ==
    \E pdfs \in {<<>>} \cup {<<a>> : a \in FewPayloads}
                \cup {<<a, b>> : a \in FewPayloads, b \in FewPayloads},
       library \in {"reads", "raises"} :
        /\ tool_merge_pdfs(pdfs, library)
        /\ UNCHANGED <<inflight, run>>

\* tool_split_pdf; library "raises" stands for pypdf rejecting the file, a
\* page list that does not parse, and a page list that selects nothing
tool_split_pdf(pdf_base64, filename, library) ==
    LET r == decode[pdf_base64]
    IN  IF r.raised \/ library = "raises"
        THEN ToolFails("split_pdf", <<pdf_base64>>)
        ELSE ToolStores("split_pdf", <<pdf_base64>>, r.value, LibraryPdf,
                        SplitName(filename), "application/pdf")

SplitPdf ==
    \E pdf_base64 \in FewPayloads, filename \in Filenames,
       library \in {"reads", "raises"} :
        /\ tool_split_pdf(pdf_base64, filename, library)
        /\ UNCHANGED <<inflight, run>>

\* tool_pdf_to_images; the PDFs the library reads have no page or one page
tool_pdf_to_images(pdf_base64, filename, library, npages) ==
    LET r == decode[pdf_base64]
    IN  IF r.raised \/ library = "raises"
        THEN ToolFails("pdf_to_images", <<pdf_base64>>)
        ELSE IF npages = 0
        THEN /\ toolcall' = [tool |-> "pdf_to_images", texts |-> <<pdf_base64>>,
                             success |-> TRUE, decoded |-> r.value]
             /\ last' = Outcome("pdf_to_images", 0, 200, "success", <<>>, {},
                                FALSE)
             /\ UNCHANGED <<FILE_METADATA, ledgerType, files, METADATA_FILE,
                            clock, issued, returned, swept, reissued,
                            loadedFrom>>
        ELSE ToolStores("pdf_to_images", <<pdf_base64>>, r.value, LibraryPng,
                        ImageName(filename), "image/png")

PdfToImages ==
    \E pdf_base64 \in FewPayloads, filename \in Filenames,
       library \in {"reads", "raises"}, npages \in {0, 1} :
        /\ tool_pdf_to_images(pdf_base64, filename, library, npages)
        /\ UNCHANGED <<inflight, run>>

\* ------------------------------------------------------------- environment
Tick ==
    /\ clock + TickStep <= MaxClock
    /\ clock' = clock + TickStep
    /\ last' = Outcome("tick", 0, 0, "none", <<>>, {}, FALSE)
    /\ UNCHANGED aux
    /\ UNCHANGED <<FILE_METADATA, ledgerType, files, METADATA_FILE, issued,
                   returned, swept, reissued, loadedFrom>>

SideFileKind(file) == IF file.exists THEN file.text.kind ELSE "missing"

\* the process is started again: FILE_METADATA = {} and then load_metadata()
Restart ==
    LET r == load_metadata(METADATA_FILE)
    IN  /\ FILE_METADATA' = r.value
        /\ ledgerType' = r.type
        /\ loadedFrom' = SideFileKind(METADATA_FILE)
        /\ last' = Outcome("restart", 0, 0, "none", <<>>, {}, FALSE)
        /\ UNCHANGED aux
        /\ UNCHANGED <<files, METADATA_FILE, clock, issued, returned, swept,
                       reissued>>

\* a blob file is removed from FILES_DIR by something other than the server
DeleteBlobOutOfBand ==
    \E n \in DOMAIN files :
        /\ files' = [x \in DOMAIN files \ {n} |-> files[x]]
        /\ last' = Outcome("unlink", n[1], 0, "none", <<>>, {}, FALSE)
        /\ UNCHANGED aux
        /\ UNCHANGED <<FILE_METADATA, ledgerType, METADATA_FILE, clock, issued,
                       returned, swept, reissued, loadedFrom>>

\* .metadata.json is edited by hand, or removed, while the server is down,
\* and the server is started again
EditSideFile ==
    \E f \in {[exists |-> FALSE, text |-> NoText],
              [exists |-> TRUE, text |-> GarbageText],
              [exists |-> TRUE, text |-> ArrayText]} :
        LET r == load_metadata(f)
        IN  /\ METADATA_FILE' = f
            /\ FILE_METADATA' = r.value
            /\ ledgerType' = r.type
            /\ loadedFrom' = SideFileKind(f)
            /\ last' = Outcome("restart", 0, 0, "none", <<>>, {}, FALSE)
            /\ UNCHANGED aux
            /\ UNCHANGED <<files, clock, issued, returned, swept, reissued>>

\* --------------------------- cleanup_expired_files, statement by statement
\* the statements of the loop body, in the order the code runs them
cleanup_entry_steps_unlink_first == <<"unlink", "pop">>

cleanup_entry_steps == <<"pop", "unlink">>

\* the statement that follows statement pc of the loop body
After(pc) ==
    LET k == CHOOSE i \in 1..Len(cleanup_entry_steps) : cleanup_entry_steps[i] = pc
    IN  IF k < Len(cleanup_entry_steps) THEN cleanup_entry_steps[k + 1] ELSE "for"

\* the handlers run one at a time on the event loop
LoopStore == run = Idle /\ Store

LoopTick == run = Idle /\ Tick

\* now = datetime.now(); expired = [...]
CleanupBegin ==
    /\ run = Idle
    /\ ledgerType = "dict"
    /\ run' = [Idle EXCEPT !.op = "cleanup", !.pc = "for",
                           !.expired = expired(clock), !.todo = expired(clock)]
    /\ last' = Outcome("cleanup_begin", 0, 0, "none", <<>>, {}, FALSE)
    /\ UNCHANGED <<FILE_METADATA, ledgerType, files, METADATA_FILE, clock,
                   issued, returned, swept, reissued, loadedFrom, toolcall,
                   inflight>>

\* for file_id in expired:
CleanupFor ==
    /\ run.pc = "for"
    /\ \E file_id \in run.todo :
        run' = [run EXCEPT !.pc = cleanup_entry_steps[1], !.id = file_id,
                           !.meta = NoMetadata, !.todo = @ \ {file_id}]
    /\ UNCHANGED <<FILE_METADATA, ledgerType, files, METADATA_FILE, clock,
                   issued, returned, swept, reissued, loadedFrom, last,
                   toolcall, inflight>>

\* meta = FILE_METADATA.pop(file_id, None)
CleanupPop ==
    /\ run.pc = "pop"
    /\ run' = [run EXCEPT !.pc = After("pop"),
                          !.meta = get_file_metadata(run.id),
                          !.popped = @ \cup ({run.id} \cap DOMAIN FILE_METADATA)]
    /\ FILE_METADATA' = Pop(FILE_METADATA, {run.id})
    /\ swept' = swept \cup ({run.id} \cap DOMAIN FILE_METADATA)
    /\ UNCHANGED <<ledgerType, files, METADATA_FILE, clock, issued, returned,
                   reissued, loadedFrom, last, toolcall, inflight>>

\* if meta: ... if file_path.exists(): file_path.unlink()
CleanupUnlink ==
    /\ run.pc = "unlink"
    /\ IF run.meta # NoMetadata /\ run.meta.stored_filename \in DOMAIN files
       THEN /\ files' = [n \in DOMAIN files \ {run.meta.stored_filename}
                            |-> files[n]]
            /\ run' = [run EXCEPT !.pc = After("unlink"),
                                  !.unlinked = @ \cup {run.id}]
       ELSE /\ files' = files
            /\ run' = [run EXCEPT !.pc = After("unlink")]
    /\ UNCHANGED <<FILE_METADATA, ledgerType, METADATA_FILE, clock, issued,
                   returned, swept, reissued, loadedFrom, last, toolcall,
                   inflight>>

\* if expired: save_metadata()
CleanupPersist ==
    /\ run.pc = "for"
    /\ run.todo = {}
    /\ IF run.expired # {}
       THEN /\ METADATA_FILE' = save_metadata(FILE_METADATA)
            /\ run' = [run EXCEPT !.pc = "return", !.saves = @ + 1]
       ELSE /\ METADATA_FILE' = METADATA_FILE
            /\ run' = [run EXCEPT !.pc = "return"]
    /\ UNCHANGED <<FILE_METADATA, ledgerType, files, clock, issued, returned,
                   swept, reissued, loadedFrom, last, toolcall, inflight>>

\* cleanup_expired_files returns
CleanupReturn ==
    /\ run.pc = "return"
    /\ run' = Idle
    /\ last' = Outcome("cleanup", 0, 200, "none", <<>>, run.popped, FALSE)
    /\ UNCHANGED <<FILE_METADATA, ledgerType, files, METADATA_FILE, clock,
                   issued, returned, swept, reissued, loadedFrom, toolcall,
                   inflight>>

\* ------------------------------------------------ requests on the event loop
\* the requests followed at once
MaxRequests == MaxIds

\* POST /upload_file is accepted and endpoint_upload_file waits in
\* await request.json(); stores counts the store_file calls completed so far
UploadArrives ==
    /\ Cardinality(inflight) < MaxRequests
    /\ \E filename \in Filenames :
        inflight' = inflight \cup
            {[n |-> Cardinality(inflight) + 1, pc |-> "await",
              content_base64 |-> Encoded(PdfMagic, "plain"),
              filename |-> filename, id |-> 0,
              stores |-> Cardinality(DOMAIN returned)]}
    /\ last' = Outcome("accept", 0, 0, "none", <<>>, {}, FALSE)
    /\ UNCHANGED <<FILE_METADATA, ledgerType, files, METADATA_FILE, clock,
                   issued, returned, swept, reissued, loadedFrom, toolcall, run>>

\* the body has arrived: the rest of endpoint_upload_file runs without a
\* further await; stores becomes the number of store_file calls that
\* completed while the request waited
UploadHandled ==
    \E r \in inflight, mime_type \in MimeTypes :
        /\ r.pc = "await"
        /\ tool_upload_file(r.content_base64, r.filename, mime_type)
        /\ inflight' = (inflight \ {r}) \cup
               {[r EXCEPT !.pc = "done", !.id = last'.id,
                          !.stores = Cardinality(DOMAIN returned) - @]}
        /\ run' = run

\* endpoint_download_file returns: a 404 is sent as it is, a FileResponse
\* holds the path and the file is read when the body is sent, after the
\* handler has returned
DownloadReturns ==
    \E file_id \in Ids, requested_filename \in Filenames :
        LET r == endpoint_download_file(file_id, requested_filename)
        IN  /\ Cardinality(inflight) < MaxRequests
            /\ IF r.body = "file"
               THEN /\ inflight' = inflight \cup
                           {[id |-> file_id, path |-> get_file_path(file_id)]}
                    /\ last' = Outcome("download", file_id, r.status,
                                       "file_response", <<>>, {}, FALSE)
               ELSE /\ inflight' = inflight
                    /\ last' = Outcome("download", file_id, r.status, r.body,
                                       r.data, {}, r.status = 500)
            /\ UNCHANGED <<FILE_METADATA, ledgerType, files, METADATA_FILE,
                           clock, issued, returned, swept, reissued,
                           loadedFrom, toolcall, run>>

\* the server sends the body of a FileResponse: it reads the file at the
\* path, and fails when there is none
StreamBody ==
    \E resp \in inflight :
        /\ inflight' = inflight \ {resp}
        /\ last' = IF resp.path \in DOMAIN files
                   THEN Outcome("stream", resp.id, 200, "file",
                                files[resp.path], {}, FALSE)
                   ELSE Outcome("stream", resp.id, 500, "exception", <<>>, {},
                                TRUE)
        /\ UNCHANGED <<FILE_METADATA, ledgerType, files, METADATA_FILE, clock,
                       issued, returned, swept, reissued, loadedFrom, toolcall,
                       run>>

\* ------------------------------------------------------------ I/O failures
\* what a write that raises OSError can leave of the file it was writing:
\* the file as it was (open failed) or a truncated file (the write failed)
WriteLeaves == {"untouched", "truncated"}

\* store_file aborts: write_bytes raises, or save_metadata raises after the
\* blob is written and the entry assigned
StoreAborts ==
    \E content \in Contents, filename \in Filenames, mime_type \in MimeTypes,
       file_id \in uuid4, step \in {"write_bytes", "save_metadata"},
       left \in WriteLeaves :
        LET name     == stored_filename(file_id, filename)
            metadata == make_metadata(file_id, filename, mime_type, content,
                                      clock, clock)
        IN  /\ ledgerType = "dict"
            /\ issued' = issued \cup {file_id}
            /\ IF step = "write_bytes"
               THEN /\ files' = IF left = "truncated"
                                THEN Put(files, name, <<>>) ELSE files
                    /\ UNCHANGED <<FILE_METADATA, METADATA_FILE>>
               ELSE /\ files' = Put(files, name, content)
                    /\ FILE_METADATA' = Put(FILE_METADATA, file_id, metadata)
                    /\ METADATA_FILE' =
                           IF left = "truncated"
                           THEN [exists |-> TRUE, text |-> GarbageText]
                           ELSE METADATA_FILE
            /\ last' = Outcome("store", file_id, 0, step, <<>>, {}, TRUE)
            /\ UNCHANGED <<ledgerType, clock, returned, swept, reissued,
                           loadedFrom, toolcall, inflight, run>>

\* cleanup_expired_files aborts: unlink raises on the file of entry at, the
\* entries of D having been removed before it; or save_metadata raises after
\* the loop
CleanupAborts ==
    \E step \in {"unlink", "save_metadata"}, at \in expired(clock),
       D \in SUBSET expired(clock), left \in WriteLeaves :
        /\ ledgerType = "dict"
        /\ IF step = "unlink"
           THEN /\ at \notin D
                /\ FILE_METADATA[at].stored_filename \in DOMAIN files
                /\ left = "untouched"
                /\ METADATA_FILE' = METADATA_FILE
                /\ files' = unlink_all(D)
                /\ FILE_METADATA' = Pop(FILE_METADATA, D \cup {at})
                /\ swept' = swept \cup D \cup {at}
                /\ last' = Outcome("cleanup", at, 500, step, <<>>,
                                   D \cup {at}, TRUE)
           ELSE /\ D = expired(clock)
                /\ at = Max(D)
                /\ METADATA_FILE' =
                       IF left = "truncated"
                       THEN [exists |-> TRUE, text |-> GarbageText]
                       ELSE METADATA_FILE
                /\ files' = unlink_all(D)
                /\ FILE_METADATA' = Pop(FILE_METADATA, D)
                /\ swept' = swept \cup D
                /\ last' = Outcome("cleanup", 0, 500, step, <<>>, D, TRUE)
        /\ UNCHANGED <<ledgerType, clock, issued, returned, reissued,
                       loadedFrom, toolcall, inflight, run>>

\* ----------------------------------------------------------- specifications
Next == Store \/ cleanup_expired_files \/ Download \/ Tick \/ Restart

Spec == Init /\ [][Next]_vars

NextCollision ==
    StoreRandomId \/ cleanup_expired_files \/ Download \/ Tick \/ Restart

SpecCollision == Init /\ [][NextCollision]_vars

NextOutOfBand ==
    Store \/ cleanup_expired_files \/ Download \/ Tick \/ DeleteBlobOutOfBand

SpecOutOfBand == Init /\ [][NextOutOfBand]_vars

NextEdited ==
    Store \/ cleanup_expired_files \/ Download \/ Tick \/ Restart \/ EditSideFile

SpecEdited == Init /\ [][NextEdited]_vars

NextSweep ==
    \/ LoopStore \/ LoopTick \/ DeleteBlobOutOfBand
    \/ CleanupBegin \/ CleanupFor \/ CleanupPop \/ CleanupUnlink
    \/ CleanupPersist \/ CleanupReturn

SpecSweep == Init /\ [][NextSweep]_vars

\* GET /health runs cleanup_expired_files to its end: there is no await
\* before it
NextRequests ==
    UploadArrives \/ UploadHandled \/ cleanup_expired_files \/ Tick

SpecRequests == Init /\ [][NextRequests]_vars

NextStream ==
    Store \/ Tick \/ cleanup_expired_files \/ DownloadReturns \/ StreamBody

SpecStream == Init /\ [][NextStream]_vars

NextFaults ==
    Store \/ Tick \/ cleanup_expired_files \/ StoreAborts \/ CleanupAborts

SpecFaults == Init /\ [][NextFaults]_vars

NextTools == UploadFile \/ MergePdfs \/ SplitPdf \/ PdfToImages

SpecTools == Init /\ [][NextTools]_vars

\* ------------------------------------------------------------------ claims
Live == DOMAIN returned \ swept

\* C1: a descriptor store_file returned stays as it was returned, with its
\* backing file present and holding exactly the stored bytes and size equal
\* to their length, through every later store, download, sweep and restart,
\* until a sweep removes it.
C1_StoredStaysRetrievable ==
    \A id \in Live :
        /\ get_file_metadata(id) = returned[id].meta
        /\ get_file_path(id) # NoPath
        /\ files[get_file_path(id)] = returned[id].content
        /\ returned[id].meta.size = Len(returned[id].content)

\* a download of a stored descriptor succeeds after another store and after
\* a sweep that removed another descriptor
C1_Witness ==
    /\ last.op = "download" /\ last.status = 200
    /\ last.id \in Live
    /\ swept # {}
    /\ Cardinality(DOMAIN returned) >= 2
    /\ last.data = returned[last.id].content /\ last.data # <<>>

\* C2: ledger entries and blob files correspond one to one: every entry has
\* its file, no file lacks an entry, and no two entries share a file.
C2_LedgerMatchesBlobs ==
    /\ \A id \in DOMAIN FILE_METADATA :
           FILE_METADATA[id].stored_filename \in DOMAIN files
    /\ \A n \in DOMAIN files :
           \E id \in DOMAIN FILE_METADATA : FILE_METADATA[id].stored_filename = n
    /\ \A a, b \in DOMAIN FILE_METADATA :
           a # b => FILE_METADATA[a].stored_filename # FILE_METADATA[b].stored_filename

\* a sweep has just removed one entry and left another
C2_Witness ==
    /\ last.op = "cleanup" /\ last.removed # {}
    /\ DOMAIN FILE_METADATA # {}
    /\ Cardinality(DOMAIN files) = Cardinality(DOMAIN FILE_METADATA)

\* C3: a run of cleanup_expired_files at time now removes from the ledger
\* and from the disk every descriptor with now > expires_at and leaves every
\* descriptor with expires_at > now, and its file, as they were.
C3_SweepRemovesExpiredOnly ==
    [][last'.op = "cleanup" /\ ~last'.raised =>
         \A id \in DOMAIN FILE_METADATA :
             LET m == FILE_METADATA[id]
             IN  /\ clock' > fromisoformat(m.expires_at) =>
                        /\ id \notin DOMAIN FILE_METADATA'
                        /\ m.stored_filename \notin DOMAIN files'
                 /\ fromisoformat(m.expires_at) > clock' =>
                        /\ id \in DOMAIN FILE_METADATA'
                        /\ FILE_METADATA'[id] = m
                        /\ m.stored_filename \in DOMAIN files'
                        /\ m.stored_filename \in DOMAIN files
                        /\ files'[m.stored_filename] = files[m.stored_filename]
      ]_vars

\* a sweep has removed an expired descriptor while one that expires later
\* is still there
C3_Witness ==
    /\ last.op = "cleanup" /\ last.removed # {}
    /\ \E id \in DOMAIN FILE_METADATA :
           fromisoformat(FILE_METADATA[id].expires_at) > clock
    /\ \A id \in last.removed :
           /\ id \notin DOMAIN FILE_METADATA
           /\ clock > fromisoformat(returned[id].meta.expires_at)

\* C4: store_file never returns an id it returned before, swept or not, and
\* any two descriptors not yet swept are two ledger entries with two
\* different backing files, both retrievable.
C4_IdsNeverReused ==
    /\ reissued = {}
    /\ \A a, b \in Live :
           a # b =>
               /\ a \in DOMAIN FILE_METADATA /\ b \in DOMAIN FILE_METADATA
               /\ get_file_path(a) # NoPath /\ get_file_path(b) # NoPath
               /\ get_file_path(a) # get_file_path(b)
               /\ files[get_file_path(a)] = returned[a].content
               /\ files[get_file_path(b)] = returned[b].content

\* a second store of the same content under the same file name has returned
\* while the first descriptor is still live
C4_Witness ==
    /\ last.op = "store"
    /\ \E a, b \in Live :
           /\ a # b
           /\ returned[a].content = returned[b].content
           /\ returned[a].meta.original_filename = returned[b].meta.original_filename

\* C5: when uuid4 yields an id that is already in the ledger, store_file
\* raises and leaves the ledger and the blob files untouched.
C5_CollisionFailsLoudly ==
    [][last'.op = "store" /\ last'.id \in DOMAIN FILE_METADATA
       => /\ last'.raised
          /\ FILE_METADATA' = FILE_METADATA
          /\ files' = files
      ]_vars

\* C6: once store_file, or a sweep that removed an entry, has returned, the
\* side file exists and its text denotes exactly the in-memory ledger.
C6_SideFileEqualsLedger ==
    (\/ last.op = "store" /\ ~last.raised
     \/ last.op = "cleanup" /\ last.removed # {})
    => /\ METADATA_FILE.exists
       /\ json_loads(METADATA_FILE.text) =
              [raised |-> FALSE, type |-> "dict", value |-> FILE_METADATA]

\* a sweep has removed an entry, left another, and rewritten the side file
C6_Witness ==
    /\ last.op = "cleanup" /\ last.removed # {}
    /\ DOMAIN FILE_METADATA # {}
    /\ DOMAIN METADATA_FILE.text.members = DOMAIN FILE_METADATA

\* C7: after a restart the ledger holds exactly the descriptors stored and
\* not swept before it, each field as store_file returned it; each is still
\* resolvable and is still found expired once its expires_at has passed.
C7_RestartRoundTrip ==
    last.op = "restart" =>
        /\ ledgerType = "dict"
        /\ DOMAIN FILE_METADATA = Live
        /\ \A id \in Live :
               /\ FILE_METADATA[id] = returned[id].meta
               /\ get_file_path(id) # NoPath
               /\ id \in expired(fromisoformat(returned[id].meta.expires_at) + 1)
               /\ id \notin expired(fromisoformat(returned[id].meta.expires_at))

\* a restart has reloaded two descriptors
C7_Witness ==
    /\ last.op = "restart"
    /\ loadedFrom = "object"
    /\ Cardinality(DOMAIN FILE_METADATA) >= 2

\* C8: a load from a missing or malformed side file leaves an empty mapping,
\* and no later store, lookup or sweep raises.
C8_MalformedLoadsEmpty ==
    /\ loadedFrom # "object" => ledgerType = "dict"
    /\ last.op = "restart" /\ loadedFrom # "object" => FILE_METADATA = EmptyDict
    /\ ~last.raised

\* C9: a download of an id whose blob is gone from the disk, or of an id
\* that is not in the ledger, is answered 404 with a JSON error body,
\* whatever the file name in the URL; get_file_path gives None for it.
C9_MissingIs404 ==
    \A id \in Ids, fn \in Filenames :
        LET r == endpoint_download_file(id, fn)
        IN  /\ id \notin DOMAIN FILE_METADATA =>
                   r.status = 404 /\ r.body = "json_error"
            /\ (id \in DOMAIN FILE_METADATA
                  /\ FILE_METADATA[id].stored_filename \notin DOMAIN files) =>
                   /\ get_file_path(id) = NoPath
                   /\ r.status = 404 /\ r.body = "json_error"

\* a download was answered 404 for a ledger entry whose blob had been
\* removed out of band
C9_Witness ==
    /\ last.op = "download" /\ last.status = 404 /\ last.body = "json_error"
    /\ last.id \in DOMAIN FILE_METADATA
    /\ FILE_METADATA[last.id].stored_filename \notin DOMAIN files

\* C10: a download succeeds exactly when the entry and its file are present,
\* whatever the clock says about expires_at, and then carries the file.
C10_AccessByPresenceOnly ==
    \A id \in Ids, fn \in Filenames :
        LET r == endpoint_download_file(id, fn)
            present == /\ id \in DOMAIN FILE_METADATA
                       /\ FILE_METADATA[id].stored_filename \in DOMAIN files
        IN  /\ r.status = 200 <=> present
            /\ present => r.data = files[FILE_METADATA[id].stored_filename]

\* a download succeeded for a descriptor whose expires_at had passed
C10_Witness ==
    /\ last.op = "download" /\ last.status = 200
    /\ last.id \in DOMAIN FILE_METADATA
    /\ clock > fromisoformat(FILE_METADATA[last.id].expires_at)


\* C11: every descriptor in the ledger has expires_at = created_at + 24 h,
\* and keeps the created_at, expires_at and size store_file gave it.
C11_ExpiresIsCreatedPlusTTL ==
    \A id \in DOMAIN FILE_METADATA :
        /\ fromisoformat(FILE_METADATA[id].expires_at) =
               fromisoformat(FILE_METADATA[id].created_at) + TTL_HOURS
        /\ id \in DOMAIN returned =>
               /\ FILE_METADATA[id].expires_at = returned[id].meta.expires_at
               /\ FILE_METADATA[id].created_at = returned[id].meta.created_at
               /\ FILE_METADATA[id].size = returned[id].meta.size

\* C14, as claimed: a sweep at time now removes exactly the descriptors with
\* expires_at <= now.
C14_SweepRemovesAtExpiry ==
    [][last'.op = "cleanup" /\ ~last'.raised =>
         DOMAIN FILE_METADATA' =
             {id \in DOMAIN FILE_METADATA :
                  fromisoformat(FILE_METADATA[id].expires_at) > clock'}
      ]_vars

\* C14, amended: a sweep at time now removes exactly the descriptors with
\* expires_at < now, together with their bytes; a descriptor whose
\* expires_at equals now is kept, as is every descriptor with
\* expires_at > now.
C14_SweepRemovesAfterExpiry ==
    [][last'.op = "cleanup" /\ ~last'.raised =>
         LET kept == {id \in DOMAIN FILE_METADATA :
                          fromisoformat(FILE_METADATA[id].expires_at) >= clock'}
         IN  /\ DOMAIN FILE_METADATA' = kept
             /\ last'.removed = DOMAIN FILE_METADATA \ kept
             /\ DOMAIN files' =
                    DOMAIN files \ {FILE_METADATA[id].stored_filename :
                                        id \in DOMAIN FILE_METADATA \ kept}
      ]_vars

\* a sweep has removed one descriptor and kept one whose expires_at is now
C14_Witness ==
    /\ last.op = "cleanup" /\ last.removed # {}
    /\ \E id \in DOMAIN FILE_METADATA :
           /\ fromisoformat(FILE_METADATA[id].expires_at) = clock
           /\ get_file_path(id) # NoPath

\* C12: clean_base64 applied to the base64 encoding of any byte sequence b
\* (PDF or not), optionally behind a data: prefix, with whitespace anywhere
\* (also before the prefix) and with the '=' padding removed, returns
\* exactly b: an upload of such a text succeeds with the bytes b.
C12_DecodeRoundTrip ==
    \A b \in PdfBytes \cup OtherBytes, form \in Forms :
        (toolcall.tool = "upload_file" /\ toolcall.texts = <<Encoded(b, form)>>)
            => (toolcall.success /\ toolcall.decoded = b)

\* C13: the empty string and a placeholder fail to decode, and a tool whose
\* payload fails to decode answers success = false with a message and
\* leaves the ledger, the side file and the blob files as they were.
C13_DecodeFailureLeavesStoreAlone ==
    [][LET call == toolcall'
           rejected == \E i \in 1..Len(call.texts) : decode[call.texts[i]].raised
           unusable == \E i \in 1..Len(call.texts) :
                           call.texts[i] \in {<<>>, Placeholder}
       IN  /\ unusable => rejected
           /\ rejected =>
                /\ ~call.success
                /\ last' = Outcome(call.tool, 0, 200, "failure", <<>>, {}, FALSE)
                /\ FILE_METADATA' = FILE_METADATA
                /\ METADATA_FILE' = METADATA_FILE
                /\ files' = files]_vars

\* every tool has refused a payload while files were in the store, the empty
\* string and the placeholder among the payloads
C13_Witness ==
    /\ toolcall.tool = "merge_pdfs"
    /\ Len(toolcall.texts) = 2
    /\ ~decode[toolcall.texts[1]].raised
    /\ toolcall.texts[2] = Placeholder
    /\ ~toolcall.success
    /\ Cardinality(DOMAIN FILE_METADATA) = MaxIds
    /\ DOMAIN files # {}

\* the blob files stored under the id
FilesOf(id) == {n \in DOMAIN files : n[1] = id}

\* C15 as stated: within one cleanup_expired_files run the backing bytes of
\* an expired entry are deleted before the entry is removed from the ledger
\* (so an entry the run has removed has no bytes left), and the ledger is
\* persisted exactly once, after the whole batch.
C15_BytesDeletedBeforeEntry ==
    run.op = "cleanup" =>
        /\ \A id \in run.popped : FilesOf(id) = {}
        /\ run.saves = IF run.pc = "return" /\ run.expired # {} THEN 1 ELSE 0

\* C15 amended: within one run each expired entry is removed from the ledger
\* first and its backing bytes are deleted right after (a missing file is
\* passed over), so at most the entry in hand is out of the ledger with its
\* bytes still there; the ledger is persisted exactly once, after all entries
\* of a non-empty batch, and then equals the ledger in memory.
C15_EntryRemovedBeforeBytes ==
    run.op = "cleanup" =>
        /\ run.popped \cap DOMAIN FILE_METADATA = {}
        /\ run.unlinked \subseteq run.popped
        /\ \A id \in run.popped :
              FilesOf(id) # {} => (id = run.id /\ run.pc = "unlink")
        /\ \A id \in run.expired \ run.popped : id \in DOMAIN FILE_METADATA
        /\ run.saves = IF run.pc = "return" /\ run.expired # {} THEN 1 ELSE 0
        /\ run.pc = "return" =>
              /\ run.popped = run.expired
              /\ run.expired # {} => METADATA_FILE = save_metadata(FILE_METADATA)

\* a run over a batch of two has persisted once; one file was unlinked and
\* the other was already gone
C15_Witness ==
    /\ run.pc = "return"
    /\ Cardinality(run.expired) = 2
    /\ Cardinality(run.unlinked) = 1
    /\ run.saves = 1

\* C16: for any interleaving of uploads and health checks handled in one
\* process, once all have completed every descriptor a store returned and
\* that has not expired is in the ledger in memory and in the persisted
\* ledger file, as it was returned.
C16_NoCompletedStoreLost ==
    (\A r \in inflight : r.pc = "done") =>
        \A id \in DOMAIN returned :
            ~(clock > fromisoformat(returned[id].meta.expires_at)) =>
                /\ get_file_metadata(id) = returned[id].meta
                /\ load_metadata(METADATA_FILE).type = "dict"
                /\ id \in DOMAIN load_metadata(METADATA_FILE).value
                /\ load_metadata(METADATA_FILE).value[id] = returned[id].meta

\* all requests have completed; one upload waited while another upload
\* stored its file and a health check swept that file away, and its own
\* descriptor has not expired
C16_Witness ==
    /\ inflight # {}
    /\ \A r \in inflight : r.pc = "done"
    /\ \E r \in inflight :
          /\ r.stores = 1
          /\ r.id \in DOMAIN returned
          /\ ~(clock > fromisoformat(returned[r.id].meta.expires_at))
          /\ swept # {}
          /\ last.op = "cleanup"

\* C17: a download that passed the existence check of endpoint_download_file
\* and returned a FileResponse finds its backing file when the body is
\* streamed, whatever sweep /health ran in between.
C17_CheckedFileIsStreamed ==
    last.op = "stream" => (last.status = 200 /\ last.body = "file")

\* C18: when store_file or cleanup_expired_files aborts because the blob
\* write, an unlink or the ledger persist fails, the state left behind is
\* consistent: the ledger in memory is what the side file holds, every id in
\* the ledger has its backing file, and no blob file is without an entry.
C18_AbortLeavesConsistentState ==
    (last.raised /\ last.op \in {"store", "cleanup"}) =>
        /\ load_metadata(METADATA_FILE) =
               [type |-> "dict", value |-> FILE_METADATA]
        /\ \A id \in DOMAIN FILE_METADATA : get_file_path(id) # NoPath
        /\ \A n \in DOMAIN files : n[1] \in DOMAIN FILE_METADATA

====
